---- MODULE Spec2Model ----
(***************************************************************************)
(* Rolling deployment of a machine image across an auto scaling group:     *)
(* Deployment.run (src/deployment/deployment.py) driving the retry-wrapped *)
(* helpers of AWSHelper (src/deployment/aws_helpers.py) against a remote   *)
(* control plane.  One action per remote call; each action carries the     *)
(* local code that runs between that call and the next one, including the  *)
(* tenacity retry decision and the exception handlers of run().            *)
(***************************************************************************)
EXTENDS Integers, Sequences, FiniteSets, TLC

(***************************************************************************)
(* Bounds of the model.                                                    *)
(***************************************************************************)
\* describe_instance_refreshes is answered at most MaxPolls times
MaxPolls == 2
\* describe_auto_scaling_instances is answered at most MaxLists times
MaxLists == 2
\* at most MaxFaultyOps kinds of remote call fail in one run
MaxFaultyOps == 1

(***************************************************************************)
(* Program constants.                                                      *)
(***************************************************************************)
\* stop_after_attempt(3) of every @retry decorator
MaxAttempts == 3

ASG_NAME == "test-asg"
OTHER_ASG == "other-asg"
LT_ID == "lt-1"
AMIS == {"ami-v1", "ami-v2"}
LATEST == "$Latest"

\* str(n) of a launch template version number
Str(n) == CASE n = 1 -> "1" [] n = 2 -> "2" [] n = 3 -> "3" [] n = 4 -> "4"
            [] n = 5 -> "5" [] OTHER -> "many"

\* Python values a helper can return to run()
None == [t |-> "None"]
IntV(n) == [t |-> "int", v |-> n]
StrV(s) == [t |-> "str", s |-> s]

VARIABLES
    \* ---- the control plane ----
    groups,            \* describe_auto_scaling_groups answer: sequence of group records
    lt_versions,       \* launch template LT_ID: version number -> image id
    refresh_status,    \* status of the instance refresh, "none" before it is started
    instances,         \* instance id -> [AutoScalingGroupName, LifecycleState]
    \* ---- Deployment ----
    config,            \* ami_id, desired_capacity, min_size, max_size
    pc,                \* the remote call run() issues next, or "done"
    outcome,           \* "running" | "returned" | "raised" (exception left run())
    logged,            \* log lines written by run(), in order
    raised,            \* exception that left a helper: "none" or its class
    current_asg_details,
    new_version_ret,   \* run()'s local new_version
    \* ---- AWSHelper call frames ----
    attempt,           \* tenacity attempt number of the helper run() is in
    inner_attempt,     \* tenacity attempt number of get_current_ami_id
    new_version,       \* local of update_auto_scaling_group, 0: not in locals()
    old_instances,     \* local of verify_old_instances_termination still to terminate
    \* ---- observation ----
    calls              \* every remote call issued, in order, with its result

vars == <<groups, lt_versions, refresh_status, instances, config, pc, outcome,
          logged, raised, current_asg_details, new_version_ret, attempt,
          inner_attempt, new_version, old_instances, calls>>

remote == <<groups, lt_versions, refresh_status, instances>>

NoDetails == [AutoScalingGroupName |-> "", LaunchTemplate |-> [LaunchTemplateId |-> "", Version |-> ""],
              DesiredCapacity |-> 0, MinSize |-> 0, MaxSize |-> 0]

(***************************************************************************)
(* tenacity: @retry(stop=stop_after_attempt(3), wait=...,                  *)
(*                  retry=retry_if_exception_type(ClientError))            *)
(***************************************************************************)
\* variant: the decorator retries on every domain error as well
retry_if_exception_type_any(exc) == exc \in {"ClientError", "ValueError"}

\* retry_if_exception_type(ClientError)
retry_if_exception_type(exc) == exc = "ClientError"

\* stop_after_attempt(3)
stop_after_attempt(n) == n >= MaxAttempts

\* What the decorator does with exception exc raised by attempt number n:
\* call again, or raise (exc itself when it is not retried, RetryError when
\* the attempts are used up; no reraise=True is given).
Tenacity(exc, n) ==
    IF ~retry_if_exception_type(exc) THEN [retry |-> FALSE, exc |-> exc]
    ELSE IF stop_after_attempt(n) THEN [retry |-> FALSE, exc |-> "RetryError"]
    ELSE [retry |-> TRUE, exc |-> exc]

(***************************************************************************)
(* Pure pieces of AWSHelper.                                               *)
(***************************************************************************)
\* variant: the groups are described without the name filter
DescribeGroups_unfiltered(gs, asg_name) == gs

\* describe_auto_scaling_groups(AutoScalingGroupNames=[asg_name])
DescribeGroups(gs, asg_name) == {g \in gs : g.AutoScalingGroupName = asg_name}

\* describe_launch_template_versions(LaunchTemplateId, Versions=[version]):
\* the version numbers the token names
ResolveVersions(versions, token) ==
    IF token = LATEST THEN {n \in 1..Len(versions) : n = Len(versions)}
    ELSE {n \in 1..Len(versions) : Str(n) = token}

\* variant: the image comparison of the no-update branch is inverted
NoUpdateRequired_inverted(current_ami_id, asg_details, cfg) ==
    /\ current_ami_id # cfg.ami_id
    /\ asg_details.DesiredCapacity = cfg.desired_capacity
    /\ asg_details.MinSize = cfg.min_size
    /\ asg_details.MaxSize = cfg.max_size

\* variant: the no-update branch looks at the image alone
NoUpdateRequired_imageonly(current_ami_id, asg_details, cfg) == current_ami_id = cfg.ami_id

\* the condition of the "no update required" branch
NoUpdateRequired(current_ami_id, asg_details, cfg) ==
    /\ current_ami_id = cfg.ami_id
    /\ asg_details.DesiredCapacity = cfg.desired_capacity
    /\ asg_details.MinSize = cfg.min_size
    /\ asg_details.MaxSize = cfg.max_size

\* current_ami_id != new_ami_id
AmiChanged(current_ami_id, cfg) == current_ami_id # cfg.ami_id

\* variant: the LaunchTemplate key is sent in every case
UpdateParams_withref(asg_details, cfg, nv) ==
    [AutoScalingGroupName |-> asg_details.AutoScalingGroupName,
     DesiredCapacity |-> cfg.desired_capacity,
     MinSize |-> cfg.min_size,
     MaxSize |-> cfg.max_size,
     LaunchTemplate |->
        [LaunchTemplateId |-> asg_details.LaunchTemplate.LaunchTemplateId,
         Version |-> IF nv # 0 THEN Str(nv) ELSE asg_details.LaunchTemplate.Version]]

\* update_params, with the LaunchTemplate key only when a version was created
UpdateParams(asg_details, cfg, nv) ==
    LET base == [AutoScalingGroupName |-> asg_details.AutoScalingGroupName,
                 DesiredCapacity |-> cfg.desired_capacity,
                 MinSize |-> cfg.min_size,
                 MaxSize |-> cfg.max_size]
    IN IF nv # 0
       THEN base @@ [LaunchTemplate |->
                        [LaunchTemplateId |-> asg_details.LaunchTemplate.LaunchTemplateId,
                         Version |-> Str(nv)]]
       ELSE base

\* variant: the version token of the snapshot is returned in every case
ReturnValue_token(nv, launch_template_version) == StrV(launch_template_version)

\* return new_version if 'new_version' in locals() else launch_template_version
ReturnValue(nv, launch_template_version) ==
    IF nv # 0 THEN IntV(nv) ELSE StrV(launch_template_version)

\* variant: a failed refresh does not end the wait
IsTerminal_notfailed(status) == status \in {"Successful", "Cancelled"}

\* variant: only Successful ends the wait
IsTerminal_successful(status) == status = "Successful"

\* status in ['Successful', 'Failed', 'Cancelled']
IsTerminal(status) == status \in {"Successful", "Failed", "Cancelled"}

\* variant: the filter forgets the lifecycle state
OldInstances_anystate(insts, asg_name) ==
    SelectSeq(insts, LAMBDA i : i.AutoScalingGroupName = asg_name)

\* variant: the filter forgets the group name
OldInstances_anygroup(insts, asg_name) ==
    SelectSeq(insts, LAMBDA i : i.LifecycleState # "InService")

\* variant: the filter looks for Terminating instances only
OldInstances_terminating(insts, asg_name) ==
    SelectSeq(insts, LAMBDA i : /\ i.AutoScalingGroupName = asg_name
                                /\ i.LifecycleState = "Terminating")

\* the list comprehension old_instances
OldInstances(insts, asg_name) ==
    SelectSeq(insts, LAMBDA i : /\ i.AutoScalingGroupName = asg_name
                                /\ i.LifecycleState # "InService")

(***************************************************************************)
(* The control plane.                                                      *)
(***************************************************************************)
\* what a remote call can do: answer, fail with a botocore ClientError, or
\* fail with an exception that is no ClientError
Results(op) ==
    LET faulty == {calls[k].op : k \in {j \in DOMAIN calls : calls[j].res \in {"ClientError", "Other"}}}
    IN IF op \in faulty \/ Cardinality(faulty) < MaxFaultyOps
       THEN {"ok", "ClientError", "Other"} ELSE {"ok"}

\* update_auto_scaling_group applied to the groups of the control plane
ApplyUpdate(gs, p) ==
    {IF g.AutoScalingGroupName = p.AutoScalingGroupName
     THEN [g EXCEPT !.DesiredCapacity = p.DesiredCapacity,
                    !.MinSize = p.MinSize,
                    !.MaxSize = p.MaxSize,
                    !.LaunchTemplate = IF "LaunchTemplate" \in DOMAIN p
                                       THEN p.LaunchTemplate ELSE @]
     ELSE g : g \in gs}

\* statuses an instance refresh can show at the next query
NextStatus(s) ==
    CASE s = "Pending" -> {"Pending", "InProgress", "Cancelled"}
      [] s = "InProgress" -> {"InProgress", "Successful", "Failed", "Cancelled"}
      [] OTHER -> {s}

\* instance lists the control plane can show at the next listing: a Pending
\* instance may have come InService, a Terminating one may be gone
RECURSIVE Evolve(_)
Evolve(insts) ==
    IF insts = <<>> THEN {<<>>}
    ELSE LET i == Head(insts)
             rest == Evolve(Tail(insts))
             heads == CASE i.LifecycleState = "Pending" ->
                               {<<i>>, <<[i EXCEPT !.LifecycleState = "InService"]>>}
                        [] i.LifecycleState = "Terminating" -> {<<i>>, <<>>}
                        [] OTHER -> {<<i>>}
         IN {h \o r : h \in heads, r \in rest}

\* terminate_instances(InstanceIds=[id])
ApplyTerminate(insts, id) ==
    [k \in DOMAIN insts |->
        IF insts[k].InstanceId = id
        THEN [insts[k] EXCEPT !.LifecycleState = "Terminating"] ELSE insts[k]]

Call(op, arg, res, val) == [op |-> op, arg |-> arg, res |-> res, val |-> val]

\* the record of calls after call c: the calls of the polling loops are
\* entered up to a bound, the loops themselves go on
Record(record, c) == IF record THEN Append(calls, c) ELSE calls

\* number of answers to op so far
Answered(op) == Cardinality({k \in DOMAIN calls : calls[k].op = op /\ calls[k].res = "ok"})

(***************************************************************************)
(* Deployment.run: its log lines and its two exception handlers.           *)
(***************************************************************************)
SUCCESS == "Deployment process completed successfully"

\* variant: the handler around the later stages logs and does not return
RunExcept_noreturn(stage, exc) ==
    IF stage = "asg"
    THEN IF exc = "ValueError"
         THEN [outcome |-> "returned", logged |-> <<"Error retrieving ASG details">>]
         ELSE [outcome |-> "raised", logged |-> <<>>]
    ELSE [outcome |-> "returned",
          logged |-> <<"Error updating ASG with new AMI",
                       "Deployment process completed successfully">>]

\* the except clauses of run(): ValueError alone is caught around
\* get_current_asg_details, every Exception around the later stages; both
\* handlers log and return
RunExcept(stage, exc) ==
    IF stage = "asg"
    THEN IF exc = "ValueError"
         THEN [outcome |-> "returned", logged |-> <<"Error retrieving ASG details">>]
         ELSE [outcome |-> "raised", logged |-> <<>>]
    ELSE [outcome |-> "returned", logged |-> <<"Error updating ASG with new AMI">>]

\* the stage of run() a remote call belongs to
StageOf(p) == IF p = "describe_auto_scaling_groups" THEN "asg" ELSE "update"

\* variant: run() starts the refresh whatever update_auto_scaling_group returned
RunAfterUpdate_always(ret) ==
    [pc |-> "start_instance_refresh",
     logged |-> <<"ASG updated to use new launch template version">>]

\* the tail of run() once update_auto_scaling_group returned ret:
\* [pc, logged] of the branch taken
RunAfterUpdate(ret) ==
    IF ret # None
    THEN [pc |-> "start_instance_refresh",
          logged |-> <<"ASG updated to use new launch template version">>]
    ELSE [pc |-> "done", logged |-> <<"No update required", SUCCESS>>]

\* variant: run() ends after the reaper without the success marker
RunAfterVerify_nomarker == <<"Old instances have been terminated">>

\* the tail of run() once verify_old_instances_termination returned
RunAfterVerify == <<"Old instances have been terminated", SUCCESS>>

\* Exception exc reaches the retry decorator of the helper run() is in:
\* the helper is called again from its first remote call (restart), or the
\* exception leaves it and run() handles it.
Throw(exc, restart) ==
    LET t == Tenacity(exc, attempt)
        h == RunExcept(StageOf(pc), t.exc)
    IN /\ inner_attempt' = 1
       /\ new_version' = 0
       /\ old_instances' = <<>>
       /\ IF t.retry
          THEN /\ attempt' = attempt + 1
               /\ pc' = restart
               /\ UNCHANGED <<raised, outcome, logged>>
          ELSE /\ raised' = t.exc
               /\ pc' = "done"
               /\ outcome' = h.outcome
               /\ logged' = logged \o h.logged
               /\ UNCHANGED attempt

(***************************************************************************)
(* Init: a Deployment constructed from a configuration, facing a control   *)
(* plane in which the group may or may not exist.                          *)
(***************************************************************************)
Capacities == {<<1, 1, 1>>, <<2, 2, 2>>}

Group(token) ==
    [AutoScalingGroupName |-> ASG_NAME,
     LaunchTemplate |-> [LaunchTemplateId |-> LT_ID, Version |-> token],
     DesiredCapacity |-> 1, MinSize |-> 1, MaxSize |-> 1]

OtherGroup ==
    [AutoScalingGroupName |-> OTHER_ASG,
     LaunchTemplate |-> [LaunchTemplateId |-> "lt-2", Version |-> LATEST],
     DesiredCapacity |-> 2, MinSize |-> 2, MaxSize |-> 2]

Instance(id, g, st) == [InstanceId |-> id, AutoScalingGroupName |-> g, LifecycleState |-> st]

Init ==
    /\ \E token \in {LATEST, "1", "3"} : groups \in {{OtherGroup}, {OtherGroup, Group(token)}}
    /\ lt_versions = <<"ami-v1", "ami-v2">>
    /\ refresh_status = "none"
    /\ instances = <<Instance("i-1", ASG_NAME, "Terminating"),
                     Instance("i-2", ASG_NAME, "Pending"),
                     Instance("i-3", OTHER_ASG, "Standby")>>
    /\ \E a \in AMIS, c \in Capacities :
            config = [auto_scaling_group |-> ASG_NAME, ami_id |-> a,
                      desired_capacity |-> c[1], min_size |-> c[2], max_size |-> c[3]]
    /\ pc = "start"
    /\ outcome = "running"
    /\ logged = <<>>
    /\ raised = "none"
    /\ current_asg_details = NoDetails
    /\ new_version_ret = None
    /\ attempt = 1
    /\ inner_attempt = 1
    /\ new_version = 0
    /\ old_instances = <<>>
    /\ calls = <<>>

(***************************************************************************)
(* Actions.                                                                *)
(***************************************************************************)
\* run(): log the start, initialize_aws_sdk
RunStart ==
    /\ pc = "start"
    /\ pc' = "describe_auto_scaling_groups"
    /\ logged' = Append(logged, "Starting deployment process")
    /\ UNCHANGED <<remote, config, outcome, raised, current_asg_details, new_version_ret,
                   attempt, inner_attempt, new_version, old_instances, calls>>

\* get_current_asg_details: describe_auto_scaling_groups
DescribeAutoScalingGroups ==
    /\ pc = "describe_auto_scaling_groups"
    /\ \E res \in Results("describeGroup") :
        LET found == DescribeGroups(groups, config.auto_scaling_group) IN
        IF res = "ok" /\ found # {}
        THEN /\ calls' = Append(calls, Call("describeGroup", <<config.auto_scaling_group>>, "ok",
                                            CHOOSE g \in found : TRUE))
             /\ current_asg_details' = CHOOSE g \in found : TRUE
             /\ logged' = Append(logged, "ASG Details")
             /\ pc' = "describe_launch_template_versions"
             /\ attempt' = 1
             /\ UNCHANGED <<raised, outcome, inner_attempt, new_version, old_instances>>
        ELSE /\ calls' = Append(calls, Call("describeGroup", <<config.auto_scaling_group>>,
                                            IF res = "ok" THEN "empty" ELSE res, NoDetails))
             /\ Throw(IF res = "ok" THEN "ValueError" ELSE res, "describe_auto_scaling_groups")
             /\ UNCHANGED current_asg_details
    /\ UNCHANGED <<remote, config, new_version_ret>>

\* update_auto_scaling_group up to the decision: get_current_ami_id
\* (describe_launch_template_versions under its own retry decorator), then
\* the comparison with the target
DescribeLaunchTemplateVersions ==
    /\ pc = "describe_launch_template_versions"
    /\ \E res \in Results("describeLCV") :
        LET lt == current_asg_details.LaunchTemplate
            found == ResolveVersions(lt_versions, lt.Version)
            arg == <<lt.LaunchTemplateId, lt.Version>>
            exc == IF res = "ok" THEN "ValueError" ELSE res
            t == Tenacity(exc, inner_attempt)
        IN
        IF res = "ok" /\ found # {}
        THEN LET current_ami_id == lt_versions[CHOOSE n \in found : TRUE] IN
             /\ calls' = Append(calls, Call("describeLCV", arg, "ok", current_ami_id))
             /\ inner_attempt' = 1
             /\ UNCHANGED <<raised, new_version, old_instances>>
             /\ IF NoUpdateRequired(current_ami_id, current_asg_details, config)
                THEN /\ new_version_ret' = None
                     /\ attempt' = 1
                     /\ pc' = RunAfterUpdate(None).pc
                     /\ logged' = logged \o RunAfterUpdate(None).logged
                     /\ outcome' = IF RunAfterUpdate(None).pc = "done" THEN "returned" ELSE outcome
                ELSE /\ pc' = IF AmiChanged(current_ami_id, config)
                              THEN "create_launch_template_version"
                              ELSE "update_auto_scaling_group"
                     /\ UNCHANGED <<new_version_ret, logged, outcome, attempt>>
        ELSE /\ calls' = Append(calls, Call("describeLCV", arg,
                                            IF res = "ok" THEN "empty" ELSE res, ""))
             /\ UNCHANGED new_version_ret
             /\ IF t.retry
                THEN /\ inner_attempt' = inner_attempt + 1
                     /\ UNCHANGED <<pc, raised, outcome, logged, attempt, new_version,
                                    old_instances>>
                ELSE Throw(t.exc, "describe_launch_template_versions")
    /\ UNCHANGED <<remote, config, current_asg_details>>

\* update_auto_scaling_group: create_launch_template_version
CreateLaunchTemplateVersion ==
    /\ pc = "create_launch_template_version"
    /\ \E res \in Results("createLCV") :
        LET lt == current_asg_details.LaunchTemplate
            arg == <<lt.LaunchTemplateId, lt.Version, config.ami_id>>
        IN
        IF res = "ok"
        THEN /\ lt_versions' = Append(lt_versions, config.ami_id)
             /\ new_version' = Len(lt_versions) + 1
             /\ calls' = Append(calls, Call("createLCV", arg, "ok", Len(lt_versions) + 1))
             /\ pc' = "update_auto_scaling_group"
             /\ UNCHANGED <<raised, outcome, logged, attempt, inner_attempt, old_instances>>
        ELSE /\ calls' = Append(calls, Call("createLCV", arg, res, 0))
             /\ Throw(res, "describe_launch_template_versions")
             /\ UNCHANGED lt_versions
    /\ UNCHANGED <<groups, refresh_status, instances, config, current_asg_details,
                   new_version_ret>>

\* update_auto_scaling_group: the update call and the return to run()
UpdateAutoScalingGroup ==
    /\ pc = "update_auto_scaling_group"
    /\ \E res \in Results("updateGroup") :
        LET update_params == UpdateParams(current_asg_details, config, new_version)
            ret == ReturnValue(new_version, current_asg_details.LaunchTemplate.Version)
        IN
        IF res = "ok"
        THEN /\ groups' = ApplyUpdate(groups, update_params)
             /\ calls' = Append(calls, Call("updateGroup", update_params, "ok", ret))
             /\ new_version_ret' = ret
             /\ pc' = RunAfterUpdate(ret).pc
             /\ logged' = logged \o RunAfterUpdate(ret).logged
             /\ outcome' = IF RunAfterUpdate(ret).pc = "done" THEN "returned" ELSE outcome
             /\ attempt' = 1
             /\ new_version' = 0
             /\ UNCHANGED <<raised, inner_attempt, old_instances>>
        ELSE /\ calls' = Append(calls, Call("updateGroup", update_params, res, None))
             /\ Throw(res, "describe_launch_template_versions")
             /\ UNCHANGED <<groups, new_version_ret>>
    /\ UNCHANGED <<lt_versions, refresh_status, instances, config, current_asg_details>>

\* start_instance_refresh, and run() logging the refresh id
StartInstanceRefresh ==
    /\ pc = "start_instance_refresh"
    /\ \E res \in Results("startRefresh") :
        LET arg == <<config.auto_scaling_group, "Rolling">> IN
        IF res = "ok"
        THEN /\ refresh_status' = "Pending"
             /\ calls' = Append(calls, Call("startRefresh", arg, "ok", "refresh-1"))
             /\ logged' = Append(logged, "Started instance refresh with ID")
             /\ pc' = "describe_instance_refreshes"
             /\ attempt' = 1
             /\ UNCHANGED <<raised, outcome, inner_attempt, new_version, old_instances>>
        ELSE /\ calls' = Append(calls, Call("startRefresh", arg, res, ""))
             /\ Throw(res, "start_instance_refresh")
             /\ UNCHANGED refresh_status
    /\ UNCHANGED <<groups, lt_versions, instances, config, current_asg_details,
                   new_version_ret>>

\* wait_for_instance_refresh: one pass of its while loop; record tells
\* whether the call is entered in the record of calls (the sleep of a pass
\* that is not is a step of its own, Sleep)
WaitPass(record) ==
    /\ pc = "describe_instance_refreshes"
    /\ \E res \in Results("describeRefresh") :
        LET arg == <<config.auto_scaling_group, "refresh-1">> IN
        IF res = "ok"
        THEN \E status \in NextStatus(refresh_status) :
             /\ refresh_status' = status
             /\ calls' = Record(record, Call("describeRefresh", arg, "ok", status))
             /\ UNCHANGED <<raised, outcome, inner_attempt, new_version, old_instances>>
             /\ IF IsTerminal(status)
                THEN /\ logged' = Append(logged, "Instance refresh completed successfully")
                     /\ pc' = "describe_auto_scaling_instances"
                     /\ attempt' = 1
                ELSE /\ pc' = IF record THEN pc ELSE "time_sleep"
                     /\ UNCHANGED <<logged, attempt>>
        ELSE /\ calls' = Record(record, Call("describeRefresh", arg, res, ""))
             /\ Throw(res, "describe_instance_refreshes")
             /\ UNCHANGED refresh_status
    /\ UNCHANGED <<groups, lt_versions, instances, config, current_asg_details,
                   new_version_ret>>

\* the passes of the wait loop that the record of calls holds
DescribeInstanceRefreshes ==
    /\ Answered("describeRefresh") < MaxPolls
    /\ WaitPass(TRUE)

\* the passes after them: the loop has no bound, the record has
DescribeInstanceRefreshesOn ==
    /\ Answered("describeRefresh") >= MaxPolls
    /\ WaitPass(FALSE)

\* time.sleep(10) between two of these passes
Sleep ==
    /\ pc = "time_sleep"
    /\ pc' = "describe_instance_refreshes"
    /\ UNCHANGED <<remote, config, outcome, logged, raised, current_asg_details,
                   new_version_ret, attempt, inner_attempt, new_version, old_instances,
                   calls>>

\* verify_old_instances_termination: the listing of one pass of its while
\* loop, the filter, and the return to run() when nothing is left
ListPass(record) ==
    /\ pc = "describe_auto_scaling_instances"
    /\ \E res \in Results("listInstances") :
        IF res = "ok"
        THEN \E listing \in Evolve(instances) :
             LET old == OldInstances(listing, config.auto_scaling_group) IN
             /\ instances' = listing
             /\ calls' = Record(record, Call("listInstances", <<>>, "ok", listing))
             /\ UNCHANGED <<raised, attempt, inner_attempt, new_version>>
             /\ IF old = <<>>
                THEN /\ logged' = logged \o RunAfterVerify
                     /\ pc' = "done"
                     /\ outcome' = "returned"
                     /\ UNCHANGED old_instances
                ELSE /\ old_instances' = old
                     /\ pc' = "terminate_instances"
                     /\ UNCHANGED <<logged, outcome>>
        ELSE /\ calls' = Record(record, Call("listInstances", <<>>, res, <<>>))
             /\ Throw(res, "describe_auto_scaling_instances")
             /\ UNCHANGED instances
    /\ UNCHANGED <<groups, lt_versions, refresh_status, config, current_asg_details,
                   new_version_ret>>

\* the passes of the reaper loop that the record of calls holds
DescribeAutoScalingInstances ==
    /\ Answered("listInstances") < MaxLists
    /\ ListPass(TRUE)

\* the passes after them
DescribeAutoScalingInstancesOn ==
    /\ Answered("listInstances") >= MaxLists
    /\ ListPass(FALSE)

\* verify_old_instances_termination: one pass of the for loop over
\* old_instances; after the last one the while loop sleeps and lists again
TerminatePass(record) ==
    /\ pc = "terminate_instances"
    /\ \E res \in Results("terminateInstance") :
        LET instance == Head(old_instances) IN
        IF res = "ok"
        THEN /\ instances' = ApplyTerminate(instances, instance.InstanceId)
             /\ calls' = Record(record, Call("terminateInstance", <<instance.InstanceId>>, "ok", ""))
             /\ old_instances' = Tail(old_instances)
             /\ pc' = IF Tail(old_instances) = <<>>
                      THEN "describe_auto_scaling_instances" ELSE "terminate_instances"
             /\ UNCHANGED <<raised, outcome, logged, attempt, inner_attempt, new_version>>
        ELSE /\ calls' = Record(record, Call("terminateInstance", <<instance.InstanceId>>, res, ""))
             /\ Throw(res, "describe_auto_scaling_instances")
             /\ UNCHANGED instances
    /\ UNCHANGED <<groups, lt_versions, refresh_status, config, current_asg_details,
                   new_version_ret>>

\* old_instances is what is left of a listing the record of calls holds
RecordedPass ==
    \E j \in DOMAIN calls :
        /\ calls[j].op = "listInstances"
        /\ calls[j].res = "ok"
        /\ \A m \in (j + 1)..Len(calls) :
                calls[m].op = "terminateInstance" /\ calls[m].res = "ok"
        /\ old_instances = SubSeq(OldInstances(calls[j].val, config.auto_scaling_group),
                                  Len(calls) - j + 1,
                                  Len(OldInstances(calls[j].val, config.auto_scaling_group)))

\* the terminate calls of the passes that the record of calls holds
TerminateInstances ==
    /\ RecordedPass
    /\ TerminatePass(TRUE)

\* the terminate calls of the passes after them
TerminateInstancesOn ==
    /\ ~RecordedPass
    /\ TerminatePass(FALSE)

Next ==
    \/ RunStart
    \/ DescribeAutoScalingGroups
    \/ DescribeLaunchTemplateVersions
    \/ CreateLaunchTemplateVersion
    \/ UpdateAutoScalingGroup
    \/ StartInstanceRefresh
    \/ DescribeInstanceRefreshes
    \/ DescribeAutoScalingInstances
    \/ TerminateInstances

Spec == Init /\ [][Next]_vars

(***************************************************************************)
(* The run next to another client of the control plane that sets the       *)
(* capacities of the same group while the run is under way.                *)
(***************************************************************************)
\* update_auto_scaling_group(AutoScalingGroupName, DesiredCapacity, MinSize,
\* MaxSize) issued by the other client, after the run took its snapshot (an
\* earlier one is seen by the run and is no race)
ExternalUpdate ==
    /\ current_asg_details # NoDetails
    /\ pc # "done"
    /\ \E c \in Capacities :
            LET p == [AutoScalingGroupName |-> config.auto_scaling_group,
                      DesiredCapacity |-> c[1], MinSize |-> c[2], MaxSize |-> c[3]]
            IN /\ ApplyUpdate(groups, p) # groups
               /\ groups' = ApplyUpdate(groups, p)
    /\ UNCHANGED <<lt_versions, refresh_status, instances, config, pc, outcome, logged,
                   raised, current_asg_details, new_version_ret, attempt, inner_attempt,
                   new_version, old_instances, calls>>

NextRace ==
    \/ Next
    \/ ExternalUpdate

SpecRace == Init /\ [][NextRace]_vars

(***************************************************************************)
(* The run with its polling loops unbounded, as in the code (while True,   *)
(* no timeout): past the recorded passes the loops go on without adding to *)
(* the record. run() is one thread whose calls and sleeps return, hence    *)
(* the weak fairness of its steps.                                         *)
(***************************************************************************)
\* no remote call has failed: nothing was raised and no attempt was repeated
NoFailure == raised = "none" /\ attempt = 1 /\ inner_attempt = 1

NextLive ==
    \/ RunStart /\ NoFailure'
    \/ DescribeAutoScalingGroups /\ NoFailure'
    \/ DescribeLaunchTemplateVersions /\ NoFailure'
    \/ CreateLaunchTemplateVersion /\ NoFailure'
    \/ UpdateAutoScalingGroup /\ NoFailure'
    \/ StartInstanceRefresh /\ NoFailure'
    \/ DescribeInstanceRefreshes /\ NoFailure'
    \/ DescribeInstanceRefreshesOn /\ NoFailure'
    \/ Sleep /\ NoFailure'
    \/ DescribeAutoScalingInstances /\ NoFailure'
    \/ DescribeAutoScalingInstancesOn /\ NoFailure'
    \/ TerminateInstances /\ NoFailure'
    \/ TerminateInstancesOn /\ NoFailure'

SpecLive == Init /\ [][NextLive]_vars /\ WF_vars(NextLive)

(***************************************************************************)
(* Vocabulary of the properties: read off the record of remote calls and   *)
(* the log of run().                                                       *)
(***************************************************************************)
Ops == {"describeGroup", "describeLCV", "createLCV", "updateGroup", "startRefresh",
        "describeRefresh", "listInstances", "terminateInstance"}

Mutating == {"createLCV", "updateGroup", "startRefresh", "terminateInstance"}

Issued(op) == {k \in DOMAIN calls : calls[k].op = op}

IssuedWith(op, res) == {k \in DOMAIN calls : calls[k].op = op /\ calls[k].res = res}

Failed == {k \in DOMAIN calls : calls[k].res \in {"ClientError", "Other"}}

Logged(line) == \E k \in DOMAIN logged : logged[k] = line

Marker == Logged("Deployment process completed successfully")

\* call k is the first of its kind that was answered
FirstAnswer(k, op) ==
    /\ calls[k].op = op
    /\ calls[k].res = "ok"
    /\ \A j \in 1..(k - 1) : ~(calls[j].op = op /\ calls[j].res = "ok")

\* the target capacities equal those of the snapshot
SameCapacities ==
    /\ current_asg_details.DesiredCapacity = config.desired_capacity
    /\ current_asg_details.MinSize = config.min_size
    /\ current_asg_details.MaxSize = config.max_size

\* the image the snapshot's launch template reference resolved to when
\* update_auto_scaling_group was entered is (or is not) the target image
ResolvedAtEntry(same) ==
    \E k \in DOMAIN calls :
        /\ FirstAnswer(k, "describeLCV")
        /\ (calls[k].val = config.ami_id) = same

\* a listing with no instance of the group outside InService
NoStale(listing) ==
    \A k \in DOMAIN listing :
        ~(listing[k].AutoScalingGroupName = config.auto_scaling_group
          /\ listing[k].LifecycleState # "InService")

(***************************************************************************)
(* C1. Idempotent no-op: when the image the snapshot's launch template     *)
(* reference resolves to equals the target image and desired, min and max  *)
(* of the snapshot equal the target's, update_auto_scaling_group returns   *)
(* None and the run issues no mutating call at all.                        *)
(***************************************************************************)
C1_Case ==
    /\ SameCapacities
    /\ ResolvedAtEntry(TRUE)

C1_IdempotentNoOp ==
    C1_Case =>
        /\ new_version_ret = None
        /\ Logged("No update required")
        /\ pc = "done"
        /\ \A k \in DOMAIN calls : calls[k].op \notin Mutating

C1_Witness == C1_Case /\ pc = "done" /\ outcome = "returned"

(***************************************************************************)
(* C2. Image change with no remote call failing: exactly one               *)
(* create_launch_template_version (source: the snapshot's template id and  *)
(* version, image: the target), then exactly one update call carrying the  *)
(* target capacities and the new version, the new version number is        *)
(* returned, and $Latest resolves to the target image afterwards.          *)
(***************************************************************************)
C2_Case ==
    /\ Failed = {}
    /\ IssuedWith("updateGroup", "ok") # {}
    /\ ResolvedAtEntry(FALSE)

C2_ImageChange ==
    C2_Case =>
        \E k \in DOMAIN calls :
            /\ Issued("createLCV") = {k}
            /\ Issued("updateGroup") = {k + 1}
            /\ calls[k].arg = <<current_asg_details.LaunchTemplate.LaunchTemplateId,
                                current_asg_details.LaunchTemplate.Version,
                                config.ami_id>>
            /\ calls[k + 1].arg.AutoScalingGroupName = config.auto_scaling_group
            /\ calls[k + 1].arg.DesiredCapacity = config.desired_capacity
            /\ calls[k + 1].arg.MinSize = config.min_size
            /\ calls[k + 1].arg.MaxSize = config.max_size
            /\ "LaunchTemplate" \in DOMAIN calls[k + 1].arg
            /\ calls[k + 1].arg.LaunchTemplate =
                    [LaunchTemplateId |-> current_asg_details.LaunchTemplate.LaunchTemplateId,
                     Version |-> Str(calls[k].val)]
            /\ new_version_ret = IntV(calls[k].val)
            /\ new_version_ret # None
            /\ calls[k].val = Len(lt_versions)
            /\ lt_versions[Len(lt_versions)] = config.ami_id

C2_Witness == C2_Case /\ pc = "start_instance_refresh"

(***************************************************************************)
(* C3. Retry bound: a remote call that fails with a ClientError every time *)
(* it is issued (nothing else failing) is issued exactly 3 times in the    *)
(* run, after which the error leaves the helper and the run ends without   *)
(* the success marker.                                                     *)
(***************************************************************************)
C3_RetryBound ==
    \A op \in Ops :
        ( /\ pc = "done"
          /\ Issued(op) # {}
          /\ Issued(op) = IssuedWith(op, "ClientError")
          /\ Failed \subseteq Issued(op) )
        => /\ Cardinality(Issued(op)) = MaxAttempts
           /\ raised # "none"
           /\ ~Marker

(***************************************************************************)
(* C4. A not-found answer (empty response) of describe_auto_scaling_groups *)
(* or describe_launch_template_versions is not retried: it is the only     *)
(* answer that lookup gets in the run (the one issue of it when nothing    *)
(* failed transiently before), no remote call follows it, and the          *)
(* ValueError leaves the helpers at once.                                  *)
(***************************************************************************)
C4_NotFoundNotRetried ==
    \A op \in {"describeGroup", "describeLCV"} :
        \A k \in IssuedWith(op, "empty") :
            /\ k = Len(calls)
            /\ Issued(op) \ IssuedWith(op, "ClientError") = {k}
            /\ (IssuedWith(op, "ClientError") = {} => Issued(op) = {k})
            /\ raised = "ValueError"
            /\ pc = "done"

C4_Witness ==
    /\ IssuedWith("describeLCV", "empty") # {}
    /\ Cardinality(Issued("describeLCV")) = 1
    /\ raised = "ValueError"

(***************************************************************************)
(* C5. When the target group name does not resolve, the run issues no      *)
(* remote call other than describe_auto_scaling_groups, in particular no   *)
(* mutating one, the ValueError ends it, and the success marker is not     *)
(* logged.                                                                 *)
(***************************************************************************)
C5_Case ==
    \A g \in groups : g.AutoScalingGroupName # config.auto_scaling_group

C5_GroupNotFound ==
    C5_Case =>
        /\ \A k \in DOMAIN calls : calls[k].op = "describeGroup"
        /\ ~Marker
        /\ (IssuedWith("describeGroup", "empty") # {} =>
                /\ raised = "ValueError"
                /\ outcome = "returned"
                /\ Logged("Error retrieving ASG details")
                /\ pc = "done")

C5_Witness ==
    /\ C5_Case
    /\ IssuedWith("describeGroup", "empty") # {}
    /\ pc = "done"

(***************************************************************************)
(* C6. As claimed: in every run the success marker is logged only after a  *)
(* listing of the reaper loop showed no stale instance, on every path of   *)
(* run(), the "no update needed" path included.                            *)
(***************************************************************************)
ReaperConverged ==
    \E k \in IssuedWith("listInstances", "ok") : NoStale(calls[k].val)

C6_MarkerOnlyAfterReaper == Marker => ReaperConverged

(***************************************************************************)
(* C6, amended. The success marker is logged only after a listing of the   *)
(* reaper loop showed no stale instance, or after update_auto_scaling_group*)
(* returned None ("no update needed"), in which case run() logs the marker *)
(* without running the refresh or the reaper.                              *)
(***************************************************************************)
C6_MarkerAfterReaperOrNoUpdate ==
    Marker =>
        \/ ReaperConverged
        \/ /\ Logged("No update required")
           /\ new_version_ret = None
           /\ Issued("startRefresh") = {}
           /\ Issued("listInstances") = {}

C6_Witness == Marker /\ ReaperConverged /\ Issued("terminateInstance") # {}

(***************************************************************************)
(* C7. Fail-fast: once an error has left a helper (a ValueError, an        *)
(* exception that is no ClientError, or the RetryError of used-up          *)
(* attempts), the failing call stays the last remote call of the run and   *)
(* the success marker is never logged.                                     *)
(***************************************************************************)
C7_FailFast ==
    /\ raised # "none" =>
            /\ pc = "done"
            /\ ~Marker
            /\ calls # <<>>
            /\ calls[Len(calls)].res # "ok"
    /\ \A k \in DOMAIN calls :
            calls[k].res \in {"Other", "empty"} => k = Len(calls) /\ raised # "none"
    /\ ( /\ Len(calls) >= MaxAttempts
         /\ \A j \in (Len(calls) - MaxAttempts + 1)..Len(calls) :
                /\ calls[j].op = calls[Len(calls)].op
                /\ calls[j].res = "ClientError" )
       => raised = "RetryError"

C7_Witness ==
    /\ raised = "RetryError"
    /\ Cardinality(IssuedWith("startRefresh", "ClientError")) = MaxAttempts
    /\ outcome = "returned"

(***************************************************************************)
(* C8. wait_for_instance_refresh returns on the first answer whose status  *)
(* is Successful, Failed or Cancelled and issues no status query after it; *)
(* on every other status it stays in the loop to poll again.               *)
(***************************************************************************)
TerminalAnswers ==
    {k \in IssuedWith("describeRefresh", "ok") :
        calls[k].val \in {"Successful", "Failed", "Cancelled"}}

C8_PollUntilTerminal ==
    /\ \A k \in TerminalAnswers :
            /\ \A j \in Issued("describeRefresh") : j <= k
            /\ pc # "describe_instance_refreshes"
            /\ Logged("Instance refresh completed successfully")
    /\ ( /\ calls # <<>>
         /\ calls[Len(calls)].op = "describeRefresh"
         /\ calls[Len(calls)].res = "ok"
         /\ Len(calls) \notin TerminalAnswers )
       => /\ pc = "describe_instance_refreshes"
          /\ outcome = "running"
          /\ ~Logged("Instance refresh completed successfully")

C8_Witness ==
    /\ TerminalAnswers # {}
    /\ IssuedWith("describeRefresh", "ok") \ TerminalAnswers # {}
    /\ calls[Len(calls)].val \in {"Failed", "Cancelled"}
    /\ pc = "describe_auto_scaling_instances"

(***************************************************************************)
(* C9. Reaper convergence: when the first listing answered shows no        *)
(* instance of the group outside InService, no terminate call is issued,   *)
(* no second listing is made and verify_old_instances_termination returns  *)
(* normally.                                                               *)
(***************************************************************************)
FirstListing(k) == k \in DOMAIN calls /\ FirstAnswer(k, "listInstances")

C9_Case == \E k \in DOMAIN calls : FirstListing(k) /\ NoStale(calls[k].val)

C9_ReaperConvergence ==
    C9_Case =>
        /\ Issued("terminateInstance") = {}
        /\ \A k \in DOMAIN calls : FirstListing(k) =>
                \A j \in (k + 1)..Len(calls) : calls[j].op # "listInstances"
        /\ raised = "none"
        /\ outcome = "returned"
        /\ pc = "done"
        /\ Logged("Old instances have been terminated")

C9_Witness == C9_Case /\ Marker

(***************************************************************************)
(* C10. Whenever update_auto_scaling_group has published a new launch      *)
(* template version, in any of its attempts, and returns normally, the     *)
(* value it returns is the number of a version it created, never None, so  *)
(* that run() goes on to the instance refresh.                             *)
(***************************************************************************)
UpdateReturned ==
    \/ Logged("No update required")
    \/ Logged("ASG updated to use new launch template version")

C10_PublishedVersionReturned ==
    (IssuedWith("createLCV", "ok") # {} /\ UpdateReturned) =>
        /\ new_version_ret \in {IntV(calls[k].val) : k \in IssuedWith("createLCV", "ok")}
        /\ ~Logged("No update required")

(***************************************************************************)
(* C11. Every remote call has a retry budget of its own: a call that       *)
(* failed with a ClientError and is retried is followed by that same call  *)
(* (no call that already succeeded is issued again), and attempts run out  *)
(* only after 3 consecutive failures of one call, so that a failed poll    *)
(* followed by an answered one leaves later polls their full budget.       *)
(***************************************************************************)
C11_PerCallRetry ==
    /\ \A k \in DOMAIN calls :
            (calls[k].res = "ClientError" /\ k < Len(calls)) => calls[k + 1].op = calls[k].op
    /\ raised = "RetryError" =>
            /\ Len(calls) >= MaxAttempts
            /\ \A j \in (Len(calls) - MaxAttempts + 1)..Len(calls) :
                    /\ calls[j].op = calls[Len(calls)].op
                    /\ calls[j].res = "ClientError"

(***************************************************************************)
(* C12. Whatever stage a failure leaves its helper at (unretried or after  *)
(* the attempts are used up), run() catches it, logs one of its error      *)
(* lines and returns early without the success marker.                     *)
(***************************************************************************)
ErrorLogged ==
    \/ Logged("Error retrieving ASG details")
    \/ Logged("Error updating ASG with new AMI")

C12_FailureCaughtAndLogged ==
    raised # "none" =>
        /\ pc = "done"
        /\ outcome = "returned"
        /\ ErrorLogged
        /\ ~Marker

(***************************************************************************)
(* C13. Capacity-only change: when the image resolved at the entry of      *)
(* update_auto_scaling_group is the target image and desired, min or max   *)
(* of the snapshot differs from the target, no launch template version is  *)
(* created, every update call carries the three target capacities and no   *)
(* LaunchTemplate key, exactly one update call is answered (the only one   *)
(* issued when nothing fails), the helper returns the version token of the *)
(* snapshot, which is not None, and run() goes on to start the refresh.    *)
(* In every run an update call carries a LaunchTemplate key if and only if *)
(* the image lookup before it resolved to an image other than the target.  *)
(***************************************************************************)
C13_Case ==
    /\ ~SameCapacities
    /\ ResolvedAtEntry(TRUE)

\* the image lookup answered last before call k
LookupBefore(j, k) ==
    /\ j < k
    /\ calls[j].op = "describeLCV"
    /\ calls[j].res = "ok"
    /\ \A i \in (j + 1)..(k - 1) : calls[i].op # "describeLCV"

C13_CapacityOnly ==
    /\ C13_Case =>
        /\ Issued("createLCV") = {}
        /\ \A k \in Issued("updateGroup") :
                /\ calls[k].arg.AutoScalingGroupName = config.auto_scaling_group
                /\ calls[k].arg.DesiredCapacity = config.desired_capacity
                /\ calls[k].arg.MinSize = config.min_size
                /\ calls[k].arg.MaxSize = config.max_size
                /\ "LaunchTemplate" \notin DOMAIN calls[k].arg
        /\ Cardinality(IssuedWith("updateGroup", "ok")) <= 1
        /\ (Failed = {} => Cardinality(Issued("updateGroup")) <= 1)
        /\ \A k \in IssuedWith("updateGroup", "ok") :
                /\ calls[k].val = StrV(current_asg_details.LaunchTemplate.Version)
                /\ new_version_ret = calls[k].val
                /\ new_version_ret # None
                /\ Logged("ASG updated to use new launch template version")
                /\ ~Logged("No update required")
                /\ IF k = Len(calls) THEN pc = "start_instance_refresh"
                   ELSE calls[k + 1].op = "startRefresh"
    /\ \A k \in Issued("updateGroup") :
            \E j \in DOMAIN calls :
                /\ LookupBefore(j, k)
                /\ ("LaunchTemplate" \in DOMAIN calls[k].arg) <=> (calls[j].val # config.ami_id)

C13_Witness ==
    /\ C13_Case
    /\ Failed = {}
    /\ IssuedWith("updateGroup", "ok") # {}
    /\ IssuedWith("startRefresh", "ok") # {}

(***************************************************************************)
(* C14. Reaper target set: every terminate call names an instance that the *)
(* listing fetched last shows in the target group and outside InService,   *)
(* so no InService instance and no instance of another group is ever       *)
(* terminated; and after a listing the terminate calls go, one by one and  *)
(* in order, to every such instance of that listing, the pass being cut    *)
(* short only by a terminate call that fails.                              *)
(***************************************************************************)
\* this step issues a call of kind op
Issues(op) ==
    /\ Len(calls') = Len(calls) + 1
    /\ calls'[Len(calls')].op = op

StaleOf(listing) ==
    SelectSeq(listing, LAMBDA i : /\ i.AutoScalingGroupName = config.auto_scaling_group
                                  /\ i.LifecycleState # "InService")

\* the listing answered last before call k
ListingBefore(j, k) ==
    /\ j < k
    /\ calls[j].op = "listInstances"
    /\ calls[j].res = "ok"
    /\ \A i \in (j + 1)..(k - 1) : calls[i].op # "listInstances"

C14_ReaperTargets ==
    /\ [][Issues("terminateInstance") =>
            \E j \in DOMAIN calls :
                /\ ListingBefore(j, Len(calls) + 1)
                /\ \E n \in DOMAIN calls[j].val :
                        /\ calls[j].val[n].InstanceId = calls'[Len(calls')].arg[1]
                        /\ calls[j].val[n].AutoScalingGroupName = config.auto_scaling_group
                        /\ calls[j].val[n].LifecycleState # "InService"]_vars
    /\ [](\A j \in IssuedWith("listInstances", "ok") :
            LET stale == StaleOf(calls[j].val)
                after == j + Len(stale) + 1
            IN /\ \A n \in DOMAIN stale :
                    \/ \E m \in 1..(n - 1) : j + m <= Len(calls) /\ calls[j + m].res # "ok"
                    \/ IF j + n <= Len(calls)
                       THEN /\ calls[j + n].op = "terminateInstance"
                            /\ calls[j + n].arg = <<stale[n].InstanceId>>
                       ELSE /\ pc = "terminate_instances"
                            /\ old_instances = SubSeq(stale, Len(calls) - j + 1, Len(stale))
               /\ (after <= Len(calls) /\ \A m \in (j + 1)..(after - 1) : calls[m].res = "ok")
                    => calls[after].op = "listInstances")

C14_Witness ==
    /\ pc = "done"
    /\ Marker
    /\ Failed = {}
    /\ \E j \in IssuedWith("listInstances", "ok") :
            /\ Len(StaleOf(calls[j].val)) = 1
            /\ calls[j + 1].op = "terminateInstance"
            /\ calls[j + 2].op = "listInstances"
            /\ \E n \in DOMAIN calls[j].val :
                    /\ calls[j].val[n].AutoScalingGroupName = config.auto_scaling_group
                    /\ calls[j].val[n].LifecycleState = "InService"
            /\ \E n \in DOMAIN calls[j].val :
                    /\ calls[j].val[n].AutoScalingGroupName # config.auto_scaling_group
                    /\ calls[j].val[n].LifecycleState # "InService"

(***************************************************************************)
(* C15. Any terminal refresh status counts as completed: on Failed and on  *)
(* Cancelled, just as on Successful, wait_for_instance_refresh returns     *)
(* normally, run() logs the completion of the refresh and goes on to the   *)
(* listing of the reaper, and once a listing shows no stale instance the   *)
(* success marker is logged.                                               *)
(***************************************************************************)
C15_AnyTerminalCompletes ==
    \A k \in IssuedWith("describeRefresh", "ok") :
        calls[k].val \in {"Successful", "Failed", "Cancelled"} =>
            /\ Logged("Instance refresh completed successfully")
            /\ IF k = Len(calls)
               THEN /\ pc = "describe_auto_scaling_instances"
                    /\ raised = "none"
                    /\ outcome = "running"
               ELSE calls[k + 1].op = "listInstances"
            /\ ReaperConverged =>
                    /\ Logged("Old instances have been terminated")
                    /\ Marker
                    /\ raised = "none"
                    /\ outcome = "returned"

C15_Witness ==
    /\ \E k \in IssuedWith("describeRefresh", "ok") : calls[k].val = "Failed"
    /\ Issued("terminateInstance") # {}
    /\ ReaperConverged
    /\ Marker
    /\ pc = "done"

(***************************************************************************)
(* C16. Stage ordering: the image lookup, create_launch_template_version   *)
(* and the update call are issued only after describe_auto_scaling_groups  *)
(* answered with a snapshot; start_instance_refresh only after an update   *)
(* call succeeded; describe_instance_refreshes only after                  *)
(* start_instance_refresh returned a refresh id; the listing and the       *)
(* terminate calls of the reaper only after a terminal refresh status was  *)
(* observed.                                                               *)
(***************************************************************************)
\* the record holds an answer to a call of kind op
HasAnswer(op) == \E j \in DOMAIN calls : calls[j].op = op /\ calls[j].res = "ok"

C16_StageOrdering ==
    [][ /\ (Issues("describeLCV") \/ Issues("createLCV") \/ Issues("updateGroup")) =>
                \E j \in DOMAIN calls :
                    /\ calls[j].op = "describeGroup"
                    /\ calls[j].res = "ok"
                    /\ calls[j].val = current_asg_details
                    /\ calls[j].val.AutoScalingGroupName = config.auto_scaling_group
        /\ Issues("startRefresh") => HasAnswer("updateGroup")
        /\ Issues("describeRefresh") =>
                \E j \in DOMAIN calls :
                    /\ calls[j].op = "startRefresh"
                    /\ calls[j].res = "ok"
                    /\ calls'[Len(calls')].arg = <<config.auto_scaling_group, calls[j].val>>
        /\ (Issues("listInstances") \/ Issues("terminateInstance")) =>
                \E j \in DOMAIN calls :
                    /\ calls[j].op = "describeRefresh"
                    /\ calls[j].res = "ok"
                    /\ calls[j].val \in {"Successful", "Failed", "Cancelled"}
      ]_vars

C16_Witness ==
    /\ pc = "done"
    /\ Marker
    /\ \A op \in Ops : IssuedWith(op, "ok") # {}

(***************************************************************************)
(* C17. A run creates at most one new launch template version, whatever    *)
(* fails transiently and is retried, for a literal version token of the    *)
(* snapshot as for $Latest.                                                *)
(***************************************************************************)
C17_AtMostOneVersion == Cardinality(IssuedWith("createLCV", "ok")) <= 1

(***************************************************************************)
(* C18. Liveness of a run in which no remote call fails: if the refresh    *)
(* eventually reports a terminal status and the control plane eventually   *)
(* returns a listing with no instance of the group outside InService, a    *)
(* run that entered the wait loop eventually logs the success marker.      *)
(* Without them the loops do not end: the wait loop is left only on a      *)
(* terminal status, the reaper loop only on a listing without stale        *)
(* instances, and in both a further pass is always possible, there being   *)
(* no timeout and no bound on the passes.                                  *)
(***************************************************************************)
\* a poll of the refresh is answered with a terminal status
TerminalReport ==
    /\ DescribeInstanceRefreshes \/ DescribeInstanceRefreshesOn
    /\ refresh_status' \in {"Successful", "Failed", "Cancelled"}
    /\ NoFailure'

\* a listing shows no instance of the group outside InService
CleanListing ==
    /\ DescribeAutoScalingInstances \/ DescribeAutoScalingInstancesOn
    /\ NoStale(instances')
    /\ NoFailure'

InWaitLoop == pc \in {"describe_instance_refreshes", "time_sleep"}

InReaperLoop == pc \in {"describe_auto_scaling_instances", "terminate_instances"}

C18_Liveness ==
    /\ (SF_vars(TerminalReport) /\ SF_vars(CleanListing)) => (InWaitLoop ~> Marker)
    /\ [][(InWaitLoop /\ ~InWaitLoop') =>
                /\ refresh_status' \in {"Successful", "Failed", "Cancelled"}
                /\ InReaperLoop']_vars
    /\ [][(InReaperLoop /\ ~InReaperLoop') =>
                /\ NoStale(instances')
                /\ Marker']_vars
    /\ []((InWaitLoop \/ InReaperLoop) => ENABLED NextLive)

C18_Witness ==
    /\ Marker
    /\ NoFailure
    /\ Answered("describeRefresh") = MaxPolls
    /\ TerminalAnswers = {}
    /\ refresh_status \in {"Successful", "Failed", "Cancelled"}
    /\ Answered("listInstances") = MaxLists
    /\ ~ReaperConverged
    /\ NoStale(instances)
    /\ Logged("Old instances have been terminated")

(***************************************************************************)
(* C19. Undetected external race: describe_auto_scaling_groups is answered *)
(* once per run, and the "no update required" decision compares the target *)
(* capacities with that snapshot and the target image with the image       *)
(* resolved afresh, never with the group as it is at the time; with a      *)
(* concurrent mutator of the group, a run can therefore log 'No update     *)
(* required' and the success marker while the desired, min or max of the   *)
(* group differs from the target.                                          *)
(***************************************************************************)
\* the group as the control plane holds it now has the target capacities
ActualAtTarget ==
    \A g \in DescribeGroups(groups, config.auto_scaling_group) :
        /\ g.DesiredCapacity = config.desired_capacity
        /\ g.MinSize = config.min_size
        /\ g.MaxSize = config.max_size

C19_DecisionOnSnapshot ==
    /\ Cardinality(IssuedWith("describeGroup", "ok")) <= 1
    /\ \A k \in IssuedWith("describeGroup", "ok") : calls[k].val = current_asg_details
    /\ Logged("No update required") =>
            /\ SameCapacities
            /\ Marker
            /\ new_version_ret = None
            /\ outcome = "returned"
            /\ \E k \in IssuedWith("describeLCV", "ok") :
                    /\ calls[k].val = config.ami_id
                    /\ \A j \in (k + 1)..Len(calls) : calls[j].op # "describeLCV"

C19_Witness ==
    /\ Logged("No update required")
    /\ Marker
    /\ pc = "done"
    /\ ~ActualAtTarget
    /\ \A k \in DOMAIN calls : calls[k].op \notin Mutating

====
